---- MODULE Spec2Model ----
(***************************************************************************)
(* Model of nodes/ReplicateGen/ReplicateGen.node.ts: the execute method of *)
(* the Replicate node (submission, status polling loop, batch loop) and    *)
(* the mapProperties helper that builds the request input.                 *)
(*                                                                         *)
(* JavaScript values are encoded as strings ("undefined", "false", "0",    *)
(* "''" ...) so that values of different JavaScript types can be compared. *)
(***************************************************************************)
EXTENDS Integers, Sequences, FiniteSets, TLC

VARIABLES
    nItems,        \* items.length (line 271)
    i,             \* the for-loop index (line 280)
    pc,            \* position of execute: build, submit, delay, poll, backoff, check, done, thrown
    properties,    \* node parameter properties.propertyValues (line 285)
    body,          \* request body of the current item (line 291)
    getUrl,        \* res.urls?.get of the current item (line 304)
    numErrors,     \* line 311
    responseData,  \* line 273: declared once, outside the for loop
    returnData,    \* line 272
    result,        \* what execute returned (line 355)
    error,         \* what execute threw
    log,           \* requests and timers of the current item, in order
    earlierErrors, \* rejected status requests of the items before i
    loading,       \* position of a methods call: idle, properties, versions, returned
    inputs,        \* getModelProperties: the Input properties of the schema (line 246)
    options,       \* getModelProperties: its returnData (line 230)
    versions,      \* getModelVersions: results of the versions request (line 203)
    filter,        \* getModelVersions: its filter argument (line 196)
    searchResult   \* getModelVersions: its returnData (line 198)

\* the variables of methods.listSearch and methods.loadOptions
loadVars == <<loading, inputs, options, versions, filter, searchResult>>

vars == <<nItems, i, pc, properties, body, getUrl, numErrors, responseData,
          returnData, result, error, log, earlierErrors, loadVars>>

---------------------------------------------------------------------------
(* Bounds of the model *)

MaxItems == 2      \* largest batch
MaxPolls == 5      \* status requests per item that the model follows
MaxProps == 2      \* longest list of selected properties

---------------------------------------------------------------------------
(* Program constants *)

PollDelay == 5000          \* setTimeout before each status request
ErrorDelay == 10000        \* setTimeout after a caught status request error
MaxErrors == 2             \* numErrors > 2 is fatal

---------------------------------------------------------------------------
(* JavaScript values *)

JsUndefined == "undefined"
JsNull == "null"
JsEmptyString == "''"

\* a ?? b
Nullish(a, b) == IF a \in {JsUndefined, JsNull} THEN b ELSE a

---------------------------------------------------------------------------
(* mapProperties (lines 359-377) *)

Sep == "|"

\* A key is a sequence of pieces of text; the only piece the code looks at is "|".
RECURSIVE split(_, _)
\* key.split('|'): the segments between separators, each a string
split(key, acc) ==
    IF key = <<>> THEN <<acc>>
    ELSE IF Head(key) = Sep THEN <<acc>> \o split(Tail(key), "")
    ELSE split(Tail(key), acc \o Head(key))

\* arr[n] of a JavaScript array (0-based), undefined past the end
At(arr, n) == IF n + 1 <= Len(arr) THEN arr[n + 1] ELSE JsUndefined

\* prop[name], undefined when the object has no such field
Get(prop, name) == IF name \in DOMAIN prop THEN prop[name] ELSE JsUndefined

\* typeof property.key === 'string' (line 363)
hasStringKey(prop) == "key" \in DOMAIN prop

\* the .filter(...) of lines 361-364
RECURSIVE filterProps(_)
filterProps(props) ==
    IF props = <<>> THEN <<>>
    ELSE IF hasStringKey(Head(props)) THEN <<Head(props)>> \o filterProps(Tail(props))
    ELSE filterProps(Tail(props))

propType(prop) == At(split(prop["key"], ""), 1)
propName(prop) == At(split(prop["key"], ""), 0)

\* line 367: prop[`${type}Value`] ?? ''
propValue(prop) == Nullish(Get(prop, propType(prop) \o "Value"), JsEmptyString)

\* the .reduce(Object.assign ...) of lines 370-376: later entries overwrite
RECURSIVE reduceProps(_, _)
reduceProps(props, obj) ==
    IF props = <<>> THEN obj
    ELSE reduceProps(Tail(props),
                     (propName(Head(props)) :> propValue(Head(props))) @@ obj)

mapProperties(props) == reduceProps(filterProps(props), <<>>)

---------------------------------------------------------------------------
(* The remote service *)

Statuses == {"starting", "processing", "succeeded", "failed", "canceled"}
Outputs == {"out42"}
TransportErrors == {"ECONNRESET", "HTTP 502"}

NoUrl == 0                     \* urls.get absent or empty (falsy)
JobOf(item) == item + 1        \* the prediction created by the submission of item
UrlOf(job) == job              \* its status URL

\* responseData before the first assignment
Undefined == [id |-> 0, status |-> JsUndefined, output |-> JsUndefined]

\* the payloads a GET of url can return
StatusResponses(url) ==
    [id : {url}, status : Statuses \ {"succeeded"}, output : {JsNull}]
    \cup [id : {url}, status : {"succeeded"}, output : Outputs]

\* the payload of a POST for item: with or without urls.get
SubmitResponses(item) ==
    [id : {JobOf(item)}, status : {"starting"}, get : {UrlOf(JobOf(item)), NoUrl}]

NoError == [message |-> "", res |-> Undefined, cause |-> ""]

\* new NodeApiError(node, {message, res}); a caught rejection passed as res is kept in cause
NodeApiError(message, res, cause) == [message |-> message, res |-> res, cause |-> cause]

\* log entries: a POST, a GET (arg: the URL requested) or a wait (arg: milliseconds);
\* res is the payload of a resolved request, err the rejection of a rejected one
Entry(ev, arg, res, err) == [ev |-> ev, arg |-> arg, res |-> res, err |-> err]

\* helpers.returnJsonArray of one object, then constructExecutionMetaData
returnJsonArray(data) == <<[json |-> data]>>
constructExecutionMetaData(arr, item) ==
    [k \in 1..Len(arr) |-> [json |-> arr[k].json, pairedItem |-> item]]

---------------------------------------------------------------------------
(* execute (lines 269-356) *)

modelVersion == "version"      \* node parameter modelVersion (line 282)
NoBody == [version |-> JsUndefined, input |-> <<>>]

\* no methods call is in progress
LoadIdle ==
    /\ loading = "idle"
    /\ inputs = <<>>
    /\ options = <<>>
    /\ versions = <<>>
    /\ filter = <<>>
    /\ searchResult = <<>>

Init ==
    /\ nItems \in 0..MaxItems
    /\ i = 0
    /\ pc = "build"
    /\ properties = <<>>
    /\ body = NoBody
    /\ getUrl = NoUrl
    /\ numErrors = 0
    /\ responseData = Undefined
    /\ returnData = <<>>
    /\ result = <<>>
    /\ error = NoError
    /\ log = <<>>
    /\ earlierErrors = 0
    /\ LoadIdle

\* lines 280-294: loop test, parameters of item i, request body
BuildBody ==
    /\ pc = "build"
    /\ i < nItems
    /\ body' = [version |-> modelVersion, input |-> mapProperties(properties)]
    /\ pc' = "submit"
    /\ UNCHANGED <<nItems, i, properties, getUrl, numErrors, responseData,
                   returnData, result, error, log>>
    /\ UNCHANGED <<earlierErrors, loadVars>>

\* line 355: the loop is over
Return ==
    /\ pc = "build"
    /\ i >= nItems
    /\ result' = returnData
    /\ pc' = "done"
    /\ UNCHANGED <<nItems, i, properties, body, getUrl, numErrors, responseData,
                   returnData, error, log>>
    /\ UNCHANGED <<earlierErrors, loadVars>>

\* SubmitOk without the test of line 305
SubmitOkNoUrlCheck(res) ==
    /\ getUrl' = res.get
    /\ log' = <<Entry("POST", NoUrl, res, "")>>
    /\ numErrors' = 0
    /\ pc' = "delay"
    /\ UNCHANGED error

\* SubmitOk with numErrors declared outside the for loop, like responseData
SubmitOkKeepsErrors(res) ==
    /\ getUrl' = res.get
    /\ log' = <<Entry("POST", NoUrl, res, "")>>
    /\ IF res.get = NoUrl
       THEN /\ error' = NodeApiError("No get url found in response", res, "")
            /\ pc' = "thrown"
       ELSE /\ pc' = "delay"
            /\ UNCHANGED error
    /\ UNCHANGED numErrors

\* lines 296-311, the POST resolves
SubmitOk(res) ==
    /\ getUrl' = res.get
    /\ log' = <<Entry("POST", NoUrl, res, "")>>
    /\ IF res.get = NoUrl
       THEN /\ error' = NodeApiError("No get url found in response", res, "")
            /\ pc' = "thrown"
            /\ UNCHANGED numErrors
       ELSE /\ numErrors' = 0
            /\ pc' = "delay"
            /\ UNCHANGED error

\* line 296, the POST rejects: the rejection leaves execute
SubmitFail(e) ==
    /\ log' = <<Entry("POST", NoUrl, Undefined, e)>>
    /\ error' = NodeApiError(e, Undefined, e)
    /\ pc' = "thrown"
    /\ UNCHANGED <<getUrl, numErrors>>

Submit ==
    /\ pc = "submit"
    /\ \/ \E res \in SubmitResponses(i) : SubmitOk(res)
       \/ \E e \in TransportErrors : SubmitFail(e)
    /\ UNCHANGED <<nItems, i, properties, body, responseData, returnData, result>>
    /\ UNCHANGED <<earlierErrors, loadVars>>

\* the status requests of the current item so far
Polls == SelectSeq(log, LAMBDA en : en.ev = "GET")
IsOk(en) == en.err = ""
RejectedPolls == SelectSeq(Polls, LAMBDA en : ~IsOk(en))

\* line 314
Delay ==
    /\ pc = "delay"
    /\ Len(Polls) < MaxPolls
    /\ log' = Append(log, Entry("wait", PollDelay, Undefined, ""))
    /\ pc' = "poll"
    /\ UNCHANGED <<nItems, i, properties, body, getUrl, numErrors, responseData,
                   returnData, result, error>>
    /\ UNCHANGED <<earlierErrors, loadVars>>

\* PollOk that does not keep the payload
PollOkDropsResponse(r) ==
    /\ log' = Append(log, Entry("GET", getUrl, r, ""))
    /\ pc' = "check"
    /\ UNCHANGED <<responseData, numErrors, error>>

\* PollOk that counts consecutive errors only
PollOkResetsErrors(r) ==
    /\ responseData' = r
    /\ numErrors' = 0
    /\ log' = Append(log, Entry("GET", getUrl, r, ""))
    /\ pc' = "check"
    /\ UNCHANGED error

\* lines 317-324, the GET resolves
PollOk(r) ==
    /\ responseData' = r
    /\ log' = Append(log, Entry("GET", getUrl, r, ""))
    /\ pc' = "check"
    /\ UNCHANGED <<numErrors, error>>

\* PollFail without the cap of line 327
PollFailNoCap(e) ==
    /\ numErrors' = numErrors + 1
    /\ log' = Append(log, Entry("GET", getUrl, Undefined, e))
    /\ pc' = "backoff"
    /\ UNCHANGED <<responseData, error>>

\* lines 325-332, the GET rejects
PollFail(e) ==
    /\ numErrors' = numErrors + 1
    /\ log' = Append(log, Entry("GET", getUrl, Undefined, e))
    /\ IF numErrors + 1 > MaxErrors
       THEN /\ error' = NodeApiError("Error getting data from replicate", Undefined, e)
            /\ pc' = "thrown"
       ELSE /\ pc' = "backoff"
            /\ UNCHANGED error
    /\ UNCHANGED responseData

Poll ==
    /\ pc = "poll"
    /\ \/ \E r \in StatusResponses(getUrl) : PollOk(r)
       \/ \E e \in TransportErrors : PollFail(e)
    /\ UNCHANGED <<nItems, i, properties, body, getUrl, returnData, result>>
    /\ UNCHANGED <<earlierErrors, loadVars>>

\* Backoff that goes straight to the next request
BackoffThenPoll ==
    /\ pc = "backoff"
    /\ log' = Append(log, Entry("wait", ErrorDelay, Undefined, ""))
    /\ pc' = "poll"
    /\ UNCHANGED <<nItems, i, properties, body, getUrl, numErrors, responseData,
                   returnData, result, error>>
    /\ UNCHANGED <<earlierErrors, loadVars>>

\* line 333
Backoff ==
    /\ pc = "backoff"
    /\ log' = Append(log, Entry("wait", ErrorDelay, Undefined, ""))
    /\ pc' = "check"
    /\ UNCHANGED <<nItems, i, properties, body, getUrl, numErrors, responseData,
                   returnData, result, error>>
    /\ UNCHANGED <<earlierErrors, loadVars>>

\* Check that treats "failed" like any other status
CheckFailedContinues ==
    /\ pc = "check"
    /\ IF responseData = Undefined
       THEN /\ error' = NodeApiError("TypeError", Undefined, "")
            /\ pc' = "thrown"
            /\ UNCHANGED <<i, returnData, earlierErrors>>
       ELSE IF responseData.status = "succeeded"
       THEN /\ returnData' = returnData \o
                    constructExecutionMetaData(returnJsonArray(responseData), i)
            /\ i' = i + 1
            /\ earlierErrors' = earlierErrors + Len(RejectedPolls)
            /\ pc' = "build"
            /\ UNCHANGED error
       ELSE /\ pc' = "delay"
            /\ UNCHANGED <<i, returnData, error, earlierErrors>>
    /\ UNCHANGED <<nItems, properties, body, getUrl, numErrors, responseData,
                   result, log>>
    /\ UNCHANGED loadVars

\* Check that does not wait for the job of the item to end
CheckMovesOn ==
    /\ pc = "check"
    /\ IF responseData = Undefined
       THEN \* responseData.status of undefined
            /\ error' = NodeApiError("TypeError", Undefined, "")
            /\ pc' = "thrown"
            /\ UNCHANGED <<i, returnData, earlierErrors>>
       ELSE IF responseData.status = "failed"
       THEN /\ error' = NodeApiError("Prediction failed", responseData, "")
            /\ pc' = "thrown"
            /\ UNCHANGED <<i, returnData, earlierErrors>>
       ELSE IF responseData.status = "succeeded"
       THEN /\ returnData' = returnData \o
                    constructExecutionMetaData(returnJsonArray(responseData), i)
            /\ i' = i + 1
            /\ earlierErrors' = earlierErrors + Len(RejectedPolls)
            /\ pc' = "build"
            /\ UNCHANGED error
       ELSE /\ i' = i + 1
            /\ pc' = "build"
            /\ UNCHANGED <<returnData, error, earlierErrors>>
    /\ UNCHANGED <<nItems, properties, body, getUrl, numErrors, responseData,
                   result, log>>
    /\ UNCHANGED loadVars

\* Check that keeps polling a job that succeeded
CheckNeverBreaks ==
    /\ pc = "check"
    /\ IF responseData = Undefined
       THEN \* responseData.status of undefined
            /\ error' = NodeApiError("TypeError", Undefined, "")
            /\ pc' = "thrown"
            /\ UNCHANGED <<i, returnData, earlierErrors>>
       ELSE IF responseData.status = "failed"
       THEN /\ error' = NodeApiError("Prediction failed", responseData, "")
            /\ pc' = "thrown"
            /\ UNCHANGED <<i, returnData, earlierErrors>>
       ELSE IF responseData.status = "succeeded"
       THEN /\ pc' = "delay"
            /\ UNCHANGED <<i, returnData, error, earlierErrors>>
       ELSE /\ pc' = "delay"
            /\ UNCHANGED <<i, returnData, error, earlierErrors>>
    /\ UNCHANGED <<nItems, properties, body, getUrl, numErrors, responseData,
                   result, log>>
    /\ UNCHANGED loadVars

\* Check that gives up on a job that stays pending
CheckGivesUp ==
    /\ pc = "check"
    /\ IF responseData = Undefined
       THEN \* responseData.status of undefined
            /\ error' = NodeApiError("TypeError", Undefined, "")
            /\ pc' = "thrown"
            /\ UNCHANGED <<i, returnData, earlierErrors>>
       ELSE IF responseData.status = "failed"
       THEN /\ error' = NodeApiError("Prediction failed", responseData, "")
            /\ pc' = "thrown"
            /\ UNCHANGED <<i, returnData, earlierErrors>>
       ELSE IF responseData.status = "succeeded"
       THEN /\ returnData' = returnData \o
                    constructExecutionMetaData(returnJsonArray(responseData), i)
            /\ i' = i + 1
            /\ earlierErrors' = earlierErrors + Len(RejectedPolls)
            /\ pc' = "build"
            /\ UNCHANGED error
       ELSE IF Len(Polls) >= 3
       THEN /\ error' = NodeApiError("Timeout", responseData, "")
            /\ pc' = "thrown"
            /\ UNCHANGED <<i, returnData, earlierErrors>>
       ELSE /\ pc' = "delay"
            /\ UNCHANGED <<i, returnData, error, earlierErrors>>
    /\ UNCHANGED <<nItems, properties, body, getUrl, numErrors, responseData,
                   result, log>>
    /\ UNCHANGED loadVars

\* lines 336-350: reached after a resolved GET and after the backoff of a caught error
Check ==
    /\ pc = "check"
    /\ IF responseData = Undefined
       THEN \* responseData.status of undefined
            /\ error' = NodeApiError("TypeError", Undefined, "")
            /\ pc' = "thrown"
            /\ UNCHANGED <<i, returnData, earlierErrors>>
       ELSE IF responseData.status = "failed"
       THEN /\ error' = NodeApiError("Prediction failed", responseData, "")
            /\ pc' = "thrown"
            /\ UNCHANGED <<i, returnData, earlierErrors>>
       ELSE IF responseData.status = "succeeded"
       THEN /\ returnData' = returnData \o
                    constructExecutionMetaData(returnJsonArray(responseData), i)
            /\ i' = i + 1
            /\ earlierErrors' = earlierErrors + Len(RejectedPolls)
            /\ pc' = "build"
            /\ UNCHANGED error
       ELSE /\ pc' = "delay"
            /\ UNCHANGED <<i, returnData, error, earlierErrors>>
    /\ UNCHANGED <<nItems, properties, body, getUrl, numErrors, responseData,
                   result, log>>
    /\ UNCHANGED loadVars

Next ==
    \/ BuildBody
    \/ Return
    \/ Submit
    \/ Delay
    \/ Poll
    \/ Backoff
    \/ Check

Spec == Init /\ [][Next]_vars

TypeOK ==
    /\ nItems \in 0..MaxItems
    /\ i \in 0..nItems
    /\ pc \in {"build", "submit", "delay", "poll", "backoff", "check", "done", "thrown"}
    /\ numErrors \in 0..(MaxErrors + 1)
    /\ Len(returnData) <= nItems

---------------------------------------------------------------------------
(* Inputs of mapProperties: lists of selected properties *)

Keys == { <<"a", Sep, "boolean">>, <<"a", Sep, "number">>,
          <<"b", Sep, "string">>, <<"a">> }

\* an object with the field name, or without it
SlotFields(name, vals) == {<<>>} \cup {(name :> v) : v \in vals}

Props ==
    { kf @@ bf @@ nf @@ sf :
        kf \in {<<>>} \cup {("key" :> k) : k \in Keys},
        bf \in SlotFields("booleanValue", {"false", "true"}),
        nf \in SlotFields("numberValue", {"0"}),
        sf \in SlotFields("stringValue", {"'x'"}) }

PropertyLists == UNION {[1..n -> Props] : n \in 0..MaxProps}

\* defaults declared for the three value fields (lines 161, 172, 183)
fieldDefault(type) ==
    CASE type = "boolean" -> "false"
      [] type = "number" -> "0"
      [] type = "string" -> JsEmptyString

InitMap ==
    /\ nItems = 1
    /\ i = 0
    /\ pc = "build"
    /\ properties \in PropertyLists
    /\ body = NoBody
    /\ getUrl = NoUrl
    /\ numErrors = 0
    /\ responseData = Undefined
    /\ returnData = <<>>
    /\ result = <<>>
    /\ error = NoError
    /\ log = <<>>
    /\ earlierErrors = 0
    /\ LoadIdle

MapNext == BuildBody

\* execute up to the request body of the first item, for every list of properties
MapSpec == InitMap /\ [][MapNext]_vars

---------------------------------------------------------------------------
(* methods.loadOptions.getModelProperties (lines 229-265) *)

MaxInputs == 2     \* most input properties of a schema

\* lines 251-255
coerceKeepsInteger(type) ==
    IF type \in {"number"} THEN "number"
    ELSE IF type \in {"boolean", "integer"} THEN type
    ELSE "string"

\* lines 251-255: the type offered for a declared type
coerce(type) ==
    IF type \in {"integer", "number"} THEN "number"
    ELSE IF type \in {"boolean"} THEN "boolean"
    ELSE "string"

\* lines 257-261: the option pushed for one entry of the schema
toOption(entry) ==
    [ name |-> entry.value.title,
      value |-> <<entry.key, Sep, coerce(entry.value.type)>>,
      description |-> entry.value.description ]

DeclaredTypes == {"integer", "number", "boolean", "string", "array", "object", JsUndefined}
InputKeys == {"prompt", "seed", "image"}

\* Object.entries of a schema's Input properties: distinct keys
SchemaEntries ==
    [ key : InputKeys,
      value : [title : {"Title"}, description : {"Description"}, type : DeclaredTypes] ]
Schemas ==
    { sch \in UNION {[1..n -> SchemaEntries] : n \in 0..MaxInputs} :
        \A a, b \in 1..Len(sch) : sch[a].key = sch[b].key => a = b }

\* everything of execute at rest: an empty batch that has not started
ExecuteIdle ==
    /\ nItems = 0
    /\ i = 0
    /\ pc = "build"
    /\ properties = <<>>
    /\ body = NoBody
    /\ getUrl = NoUrl
    /\ numErrors = 0
    /\ responseData = Undefined
    /\ returnData = <<>>
    /\ result = <<>>
    /\ error = NoError
    /\ log = <<>>
    /\ earlierErrors = 0

InitProperties ==
    /\ ExecuteIdle
    /\ loading = "properties"
    /\ inputs \in Schemas
    /\ options = <<>>
    /\ versions = <<>>
    /\ filter = <<>>
    /\ searchResult = <<>>

\* lines 250-264, after the schema request resolved
getModelProperties ==
    /\ loading = "properties"
    /\ options' = [k \in 1..Len(inputs) |-> toOption(inputs[k])]
    /\ loading' = "returned"
    /\ UNCHANGED <<nItems, i, pc, properties, body, getUrl, numErrors, responseData,
                   returnData, result, error, log, earlierErrors>>
    /\ UNCHANGED <<inputs, versions, filter, searchResult>>

PropertiesNext == getModelProperties

\* getModelProperties on every schema
PropertiesSpec == InitProperties /\ [][PropertiesNext]_vars

---------------------------------------------------------------------------
(* methods.listSearch.getModelVersions (lines 194-226) *)

MaxVersions == 3   \* most versions of a model

\* new Date(created_at).getTime(), in days since 1970-01-01
getTime(created_at) ==
    CASE created_at = "2023-01-01" -> 19358
      [] created_at = "2023-03-01" -> 19417
      [] created_at = "2023-06-01" -> 19509

\* the comparator with its operands swapped: oldest first
compareAscending(a, b) == getTime(a.created_at) - getTime(b.created_at)

\* line 213: the comparator of the sort
compare(a, b) == getTime(b.created_at) - getTime(a.created_at)

\* Array.prototype.sort is stable: x, which followed every element of sorted
\* in the array, goes after the elements that do not compare greater than it
RECURSIVE insertSorted(_, _)
insertSorted(x, sorted) ==
    IF sorted = <<>> THEN <<x>>
    ELSE IF compare(Head(sorted), x) <= 0
         THEN <<Head(sorted)>> \o insertSorted(x, Tail(sorted))
         ELSE <<x>> \o sorted

\* results.sort(...) of lines 212-214, on the first n elements
RECURSIVE sortResults(_, _)
sortResults(arr, n) ==
    IF n = 0 THEN <<>> ELSE insertSorted(arr[n], sortResults(arr, n - 1))

\* id.includes(f): f occurs in id at some offset
includes(id, f) ==
    \E o \in 0..(Len(id) - Len(f)) : SubSeq(id, o + 1, o + Len(f)) = f

modelName == "owner/model"     \* node parameter modelName (line 199)

\* lines 217-221
toSearchItem(res) ==
    [ name |-> res.id,
      value |-> res.id,
      url |-> <<"https://replicate.com/", modelName, "/versions/", res.id>> ]

\* lines 215-222
RECURSIVE pushMatching(_, _)
pushMatching(arr, f) ==
    IF arr = <<>> THEN <<>>
    ELSE IF includes(Head(arr).id, f)
         THEN <<toSearchItem(Head(arr))>> \o pushMatching(Tail(arr), f)
         ELSE pushMatching(Tail(arr), f)

\* identifiers and filters are sequences of characters
VersionIds == { <<"a", "b", "1">>, <<"a", "b", "2">>, <<"x", "y", "3">>, <<"b", "1", "a">> }
Filters == { <<>>, <<"a", "b">>, <<"1">>, <<"x", "y", "3">>, <<"q">>, <<"b", "1", "a", "b">> }
CreatedAts == {"2023-01-01", "2023-03-01", "2023-06-01"}

\* the versions of a model: distinct identifiers
VersionLists ==
    { vs \in UNION {[1..n -> [id : VersionIds, created_at : CreatedAts]] : n \in 0..MaxVersions} :
        \A a, b \in 1..Len(vs) : vs[a].id = vs[b].id => a = b }

InitVersions ==
    /\ ExecuteIdle
    /\ loading = "versions"
    /\ inputs = <<>>
    /\ options = <<>>
    /\ versions \in VersionLists
    /\ filter \in Filters
    /\ searchResult = <<>>

\* lines 211-225, after the versions request resolved; versions keeps the
\* response as it was received
getModelVersions ==
    /\ loading = "versions"
    /\ searchResult' = pushMatching(sortResults(versions, Len(versions)), filter)
    /\ loading' = "returned"
    /\ UNCHANGED <<nItems, i, pc, properties, body, getUrl, numErrors, responseData,
                   returnData, result, error, log, earlierErrors>>
    /\ UNCHANGED <<inputs, options, versions, filter>>

VersionsNext == getModelVersions

\* getModelVersions on every list of versions and every filter
VersionsSpec == InitVersions /\ [][VersionsNext]_vars

---------------------------------------------------------------------------
(* Reading the log of the current item *)

LastPoll == Polls[Len(Polls)]
NonTerminal == {"starting", "processing"}
Terminal == {"succeeded", "failed", "canceled"}
Waits(ms) == SelectSeq(log, LAMBDA en : en.ev = "wait" /\ en.arg = ms)

---------------------------------------------------------------------------
(* The polling loop *)

\* C1: a job whose status requests all resolve, reporting k-1 non-terminal
\* statuses and then "succeeded", is polled exactly k times, each poll
\* preceded by one 5000 ms wait and no other wait; the loop then exits and
\* the item's result is the payload of the k-th response.
C1_SuccessAfterKPolls ==
    LET k == Len(Polls) IN
    ( /\ k >= 1
      /\ \A j \in 1..k : IsOk(Polls[j])
      /\ \A j \in 1..(k - 1) : Polls[j].res.status \in NonTerminal
      /\ LastPoll.res.status = "succeeded" )
    => /\ pc \in {"check", "build", "submit", "done"}
       /\ Len(log) = 1 + 2 * k
       /\ \A j \in 1..k : /\ log[2 * j] = Entry("wait", PollDelay, Undefined, "")
                          /\ log[2 * j + 1] = Polls[j]
       /\ pc # "check" => /\ Len(returnData) = i
                          /\ returnData[i] = [json |-> LastPoll.res, pairedItem |-> i - 1]
       /\ pc = "done" => result = returnData

\* the example of the spec: starting, processing, succeeded with output 42
C1_Witness ==
    /\ pc = "done"
    /\ nItems = 1
    /\ Len(Polls) = 3
    /\ Polls[1].res.status = "starting"
    /\ Polls[2].res.status = "processing"
    /\ Len(Waits(PollDelay)) = 3
    /\ result = <<[json |-> [id |-> 1, status |-> "succeeded", output |-> "out42"],
                   pairedItem |-> 0]>>

\* C2: a resolved status request that reports "failed" is the last request of
\* its job: nothing is requested or waited for after it, and execute throws
\* the "Prediction failed" error carrying that payload.
C2_FailedStatusIsFatal ==
    \A k \in 1..Len(Polls) :
        (IsOk(Polls[k]) /\ Polls[k].res.status = "failed")
        => /\ k = Len(Polls)
           /\ log[Len(log)] = Polls[k]
           /\ pc \in {"check", "thrown"}
           /\ pc = "thrown" =>
                /\ error = NodeApiError("Prediction failed", Polls[k].res, "")
                /\ Len(returnData) = i
                /\ result = <<>>

\* "failed" on the first poll: one status request was made
C2_Witness ==
    /\ pc = "thrown"
    /\ Len(Polls) = 1
    /\ LastPoll.res.status = "failed"
    /\ error.message = "Prediction failed"
    /\ error.res = LastPoll.res

\* C3: an item whose status requests have all been rejected does not complete,
\* and fails only with the polling error, at the third request, carrying the
\* last rejection, after two 10000 ms backoffs.
C3_ThreeErrorsArePollingError ==
    (Len(Polls) >= 1 /\ \A k \in 1..Len(Polls) : ~IsOk(Polls[k]))
    => /\ pc \notin {"build", "submit", "done"}
       /\ pc = "thrown" =>
            /\ Len(Polls) = 3
            /\ error = NodeApiError("Error getting data from replicate", Undefined,
                                    LastPoll.err)
            /\ Len(Waits(ErrorDelay)) = 2

\* C4: after the first and the second rejected status request of a job the
\* loop goes on to another status request: the item neither fails nor completes.
C4_ErrorIsRetried ==
    (Len(Polls) >= 1 /\ ~IsOk(LastPoll) /\ numErrors <= MaxErrors)
    => pc \in {"backoff", "check", "delay", "poll"}

\* C5: the payload whose status is inspected for item i, and every result
\* emitted for item i, was returned by a status request to item i's own URL.
C5_ResultFromOwnJob ==
    /\ (pc = "check" /\ responseData # Undefined) => responseData.id = getUrl
    /\ \A k \in 1..Len(returnData) :
          returnData[k].json.id = UrlOf(JobOf(returnData[k].pairedItem))

---------------------------------------------------------------------------
(* Submission and the batch *)

\* C6: when the submission response has no urls.get, execute throws the
\* "No get url found in response" error; the log of the item holds the one
\* POST and no status request, and execute takes no further step.
C6_MissingUrlIsFatal ==
    (log # <<>> /\ IsOk(log[1]) /\ log[1].res.get = NoUrl)
    => /\ pc = "thrown"
       /\ error = NodeApiError("No get url found in response", log[1].res, "")
       /\ Len(log) = 1
       /\ Len(returnData) = i
       /\ ~ENABLED Next

C6_Witness ==
    /\ pc = "thrown"
    /\ error.message = "No get url found in response"
    /\ log = <<Entry("POST", NoUrl, [id |-> JobOf(i), status |-> "starting", get |-> NoUrl], "")>>

\* the log of the current item shows a fatal condition
FatalSeen ==
    \/ log # <<>> /\ ~IsOk(log[1])
    \/ log # <<>> /\ IsOk(log[1]) /\ log[1].res.get = NoUrl
    \/ \E k \in 1..Len(Polls) : IsOk(Polls[k]) /\ Polls[k].res.status = "failed"
    \/ Len(RejectedPolls) > MaxErrors

\* C7: once an item met a fatal condition (rejected submission, missing status
\* URL, "failed" status, third rejected status request) execute throws: it
\* takes no further step, so nothing is requested for a later item, and it
\* returns nothing although earlier items may have results.
C7_FatalAbortsBatch ==
    /\ FatalSeen =>
         \/ pc = "thrown"
         \/ pc = "check" /\ IsOk(LastPoll) /\ LastPoll.res.status = "failed"
    /\ pc = "thrown" => /\ ~ENABLED Next
                        /\ result = <<>>
                        /\ i < nItems

\* items A, B: A succeeded, the submission of B is rejected
C7_Witness ==
    /\ pc = "thrown"
    /\ i = 1
    /\ Len(returnData) = 1
    /\ ~IsOk(log[1])
    /\ result = <<>>

\* C8: when execute returns, it returns one result per item, in input order:
\* entry k is the "succeeded" payload of the job of item k, tagged with k.
C8_AllSucceededInOrder ==
    pc = "done" =>
        /\ Len(result) = nItems
        /\ \A k \in 1..Len(result) :
              /\ result[k].pairedItem = k - 1
              /\ result[k].json.id = JobOf(k - 1)
              /\ result[k].json.status = "succeeded"

\* C9: the step after a resolved status request that reports a terminal status
\* (succeeded, failed, canceled) leaves the polling loop.
C9_TerminalStatusEndsLoop ==
    [][ ( /\ pc = "check"
          /\ log[Len(log)].ev = "GET"
          /\ IsOk(log[Len(log)])
          /\ log[Len(log)].res.status \in Terminal )
        => pc' \in {"build", "thrown"} ]_vars

---------------------------------------------------------------------------
(* mapProperties *)

CoercedTypes == {"boolean", "number", "string"}

\* C10: for each selected property (the last one of its name) the value sent is
\* the value of the slot named by its type, and the default of that type
\* (false, 0, '') when the slot is not populated.
C10_ValueOrTypeDefault ==
    pc = "submit" =>
        LET sel == filterProps(properties) IN
        \A n \in 1..Len(sel) :
            LET p == sel[n]
                t == propType(p)
            IN  ( /\ t \in CoercedTypes
                  /\ \A m \in (n + 1)..Len(sel) : propName(sel[m]) # propName(p) )
                => body.input[propName(p)] =
                       IF (t \o "Value") \in DOMAIN p THEN p[t \o "Value"]
                       ELSE fieldDefault(t)

---------------------------------------------------------------------------
(* getModelProperties and getModelVersions *)

\* C11: getModelProperties offers one option per declared property, without
\* an error path; the type read back from the option's value is "number" for
\* integer and number, "boolean" for boolean, "string" for anything else, and
\* coercing it again returns it unchanged.
C11_CoercionTotalIdempotent ==
    loading = "returned" =>
        /\ Len(options) = Len(inputs)
        /\ \A k \in 1..Len(inputs) :
              LET declared == inputs[k].value.type
                  t == propType(("key" :> options[k].value))
              IN  /\ propName(("key" :> options[k].value)) = inputs[k].key
                  /\ t \in CoercedTypes
                  /\ declared \in {"integer", "number"} => t = "number"
                  /\ declared = "boolean" => t = "boolean"
                  /\ declared \notin {"integer", "number", "boolean"} => t = "string"
                  /\ coerce(t) = t

C11_Witness ==
    /\ loading = "returned"
    /\ Len(options) = 2
    /\ inputs[1].value.type = "integer"
    /\ inputs[2].value.type = "array"
    /\ options[1].value = <<inputs[1].key, Sep, "number">>
    /\ options[2].value = <<inputs[2].key, Sep, "string">>

\* position in the response of the version with identifier id
IndexOf(id) == CHOOSE n \in 1..Len(versions) : versions[n].id = id

\* C12: getModelVersions returns exactly the versions whose identifier
\* contains the filter, each once, newest first, versions of equal timestamp
\* in the order of the response.
C12_VersionsFilteredNewestFirst ==
    loading = "returned" =>
        /\ {searchResult[k].value : k \in 1..Len(searchResult)}
             = {versions[n].id : n \in {m \in 1..Len(versions) : includes(versions[m].id, filter)}}
        /\ \A a, b \in 1..Len(searchResult) :
              searchResult[a].value = searchResult[b].value => a = b
        /\ \A k \in 1..Len(searchResult) : searchResult[k].name = searchResult[k].value
        /\ \A k \in 1..(Len(searchResult) - 1) :
              LET na == IndexOf(searchResult[k].value)
                  nb == IndexOf(searchResult[k + 1].value)
                  ta == getTime(versions[na].created_at)
                  tb == getTime(versions[nb].created_at)
              IN  ta > tb \/ (ta = tb /\ na < nb)

\* the example of the spec: 2023-01-01, 2023-06-01, 2023-03-01 and no filter
C12_Witness ==
    /\ loading = "returned"
    /\ filter = <<>>
    /\ Len(versions) = 3
    /\ versions[1].created_at = "2023-01-01"
    /\ versions[2].created_at = "2023-06-01"
    /\ versions[3].created_at = "2023-03-01"
    /\ searchResult[1].value = versions[2].id
    /\ searchResult[2].value = versions[3].id
    /\ searchResult[3].value = versions[1].id

---------------------------------------------------------------------------
(* The error counter, the waits and the order of the requests *)

LoopPcs == {"delay", "poll", "backoff", "check"}
Wait(ms) == Entry("wait", ms, Undefined, "")
PollingError(e) == NodeApiError("Error getting data from replicate", Undefined, e)

\* C13: inside the polling loop numErrors is the number of rejected status
\* requests of the job so far, whatever resolved requests came in between, and
\* the third rejected request of a job throws the polling error.
C13_ErrorsCountedCumulatively ==
    /\ pc \in LoopPcs => numErrors = Len(RejectedPolls)
    /\ Len(RejectedPolls) > MaxErrors =>
         /\ Len(RejectedPolls) = MaxErrors + 1
         /\ ~IsOk(log[Len(log)])
         /\ pc = "thrown"
         /\ error = PollingError(LastPoll.err)

\* processing, error, processing, error, error
C13_Witness ==
    /\ pc = "thrown"
    /\ Len(Polls) = 5
    /\ IsOk(Polls[1]) /\ ~IsOk(Polls[2]) /\ IsOk(Polls[3]) /\ ~IsOk(Polls[4])
    /\ ~IsOk(Polls[5])
    /\ error = PollingError(Polls[5].err)

\* C14: the polling loop of every item starts with numErrors = 0, and the
\* polling error is thrown for an item only on three rejected status requests
\* of its own job.
C14_CounterStartsAtZero ==
    /\ (pc = "delay" /\ Len(log) = 1) => numErrors = 0
    /\ (pc = "thrown" /\ error.message = "Error getting data from replicate")
         => Len(RejectedPolls) = MaxErrors + 1

\* the second item keeps polling after two rejected requests of its own,
\* the first item having survived two as well
C14_Witness ==
    /\ i = 1
    /\ earlierErrors = 2
    /\ pc = "delay"
    /\ Len(RejectedPolls) = 2
    /\ numErrors = 2

\* C15: every status request comes right after a 5000 ms wait; a resolved one
\* is followed by that wait alone, a rejected one by the 10000 ms wait and
\* then the 5000 ms wait, and the 10000 ms wait occurs nowhere else.
C15_WaitsBeforePolls ==
    \A n \in 1..Len(log) :
        /\ log[n].ev = "GET" => (n > 1 /\ log[n - 1] = Wait(PollDelay))
        /\ (log[n].ev = "GET" /\ n < Len(log)) =>
              log[n + 1] = IF IsOk(log[n]) THEN Wait(PollDelay) ELSE Wait(ErrorDelay)
        /\ log[n] = Wait(ErrorDelay) =>
              /\ n > 1 /\ log[n - 1].ev = "GET" /\ ~IsOk(log[n - 1])
              /\ n < Len(log) => log[n + 1] = Wait(PollDelay)
        /\ (log[n] = Wait(PollDelay) /\ n < Len(log)) => log[n + 1].ev = "GET"

\* a rejected request, 10000 ms, 5000 ms, the next request
C15_Witness ==
    \E n \in 1..(Len(log) - 3) :
        /\ log[n].ev = "GET" /\ ~IsOk(log[n])
        /\ log[n + 1] = Wait(ErrorDelay)
        /\ log[n + 2] = Wait(PollDelay)
        /\ log[n + 3].ev = "GET"

\* C16: while item i is worked on every earlier item has its result, in
\* order; the requests of an item are one POST followed by status requests
\* to the URL of that item's job only.
C16_ItemsSequential ==
    /\ Len(returnData) = i
    /\ \A k \in 1..Len(returnData) :
          returnData[k].pairedItem = k - 1 /\ returnData[k].json.status = "succeeded"
    /\ \A n \in 1..Len(log) : (log[n].ev = "POST") <=> (n = 1)
    /\ pc \in LoopPcs =>
          /\ IsOk(log[1])
          /\ log[1].res.id = JobOf(i)
          /\ \A k \in 1..Len(Polls) : Polls[k].arg = UrlOf(JobOf(i))

C16_Witness ==
    /\ i = 1
    /\ pc = "poll"
    /\ Len(Polls) = 2
    /\ Len(returnData) = 1

\* C17: a resolved status request that reports "succeeded" or "failed" is the
\* last entry of the log of its job: no wait and no request follows it.
C17_NoPollAfterTerminal ==
    \A n \in 1..Len(log) :
        (log[n].ev = "GET" /\ IsOk(log[n]) /\ log[n].res.status \in {"succeeded", "failed"})
        => /\ n = Len(log)
           /\ pc \notin {"delay", "poll", "backoff"}

C17_Witness ==
    /\ pc = "done"
    /\ nItems = 2
    /\ Len(Polls) = 2
    /\ LastPoll.res.status = "succeeded"
    /\ log[Len(log)] = LastPoll

\* C18: a job whose status requests all resolve with a status other than
\* "succeeded" and "failed" stays in the polling loop after any number of
\* polls: nothing is thrown, nothing is pushed and no error is counted.
C18_NoCapOnPendingPolls ==
    ( /\ Len(Polls) >= 1
      /\ \A k \in 1..Len(Polls) :
            IsOk(Polls[k]) /\ Polls[k].res.status \notin {"succeeded", "failed"} )
    => /\ pc \in {"check", "delay", "poll"}
       /\ numErrors = 0
       /\ Len(returnData) = i
       /\ error = NoError

\* as many polls as the model follows, all "processing", and ready for more
C18_Witness ==
    /\ Len(Polls) = MaxPolls
    /\ \A k \in 1..Len(Polls) : IsOk(Polls[k]) /\ Polls[k].res.status = "processing"
    /\ pc = "delay"

====
